---------------------------- MODULE Spec2Model ----------------------------
(***************************************************************************)
(* Model of the Agent Orchestration Matrix (agent_orchestration_matrix.py) *)
(*                                                                         *)
(* All coroutines run on one asyncio event loop, so a step of the model is *)
(* the code a coroutine runs between two suspension points.  The only      *)
(* suspension points are asyncio.sleep(0.1) in _orchestration_loop (line   *)
(* 338) and the awaited work of execute_task (line 197).  A task created   *)
(* with asyncio.create_task runs its first step at some later time.        *)
(*                                                                         *)
(* One loop iteration (lines 329-338) is modelled by two consecutive       *)
(* steps, the dispatch pass and the deadline sweep; while a loop is        *)
(* between the two (loop_tasks.sweeping = 1) no other step is enabled,     *)
(* because the code does not suspend there.                                *)
(*                                                                         *)
(* Numbers: times are integer clock ticks; confidence and load factor are  *)
(* in tenths; success_rate and average_execution_time are exact rationals  *)
(* <<numerator, denominator>> in lowest terms.                             *)
(***************************************************************************)
EXTENDS Integers, Sequences, FiniteSets, TLC

(* ------------------------------ bounds -------------------------------- *)
MaxTasks == 2
MaxTime == 1

(* ----------------------------- constants ------------------------------ *)
VoiceCapabilities == {"speech_to_text", "text_to_speech", "voice_analysis"}
Capabilities == {"speech_to_text", "text_to_speech", "unknown"}
Agents == {"voice_agent_001", "agent_002"}
Priorities == {1, 4}
NoDeadline == -1
Deadlines == {NoDeadline, 0}
DateTimeMax == 9999
OrchestrationMatrix == "orchestration_matrix"
None == "none"

TaskIds == 1..MaxTasks

Task == [id : TaskIds, required_capabilities : {{c} : c \in Capabilities},
         priority : Priorities, deadline : Deadlines]

NoTask == [id |-> 0]
NoResponse == [agent_id |-> None]
NoExec == [pc |-> "none"]

VARIABLES
    now,            \* wall clock (datetime.now(), time.time())
    agents,         \* registry: sequence of agent ids in insertion order
    state,          \* agent -> "idle" | "active"
    current_task,   \* agent -> task id or 0
    performance_metrics, \* agent -> [tasks_completed, success_rate, average_execution_time]
    task_queue,     \* sequence of Task records
    active_tasks,   \* task id -> Task record or NoTask
    completed_tasks,\* task id -> AgentResponse record or NoResponse
    orchestration_metrics, \* [total_tasks, successful_tasks, failed_tasks, agent_utilization]
    is_running,
    loop_tasks,     \* _orchestration_loop coroutines: [scheduled, sleeping, sweeping]
    exec_tasks,     \* task id -> _execute_task_with_agent coroutine of that task
    history         \* bookkeeping for the properties (not program state)

vars == <<now, agents, state, current_task, performance_metrics, task_queue,
          active_tasks, completed_tasks, orchestration_metrics, is_running,
          loop_tasks, exec_tasks, history>>

agent_vars == <<state, current_task, performance_metrics>>


(* --------------------------- exact rationals --------------------------- *)
RECURSIVE GCD(_, _)
GCD(a, b) == IF b = 0 THEN a ELSE GCD(b, a % b)

Rat(n, d) == LET g == GCD(n, d) IN IF g = 0 THEN <<0, 1>> ELSE <<n \div g, d \div g>>

RatGreater(a, b) == a[1] * b[2] > b[1] * a[2]

RatEqual(a, b) == a[1] * b[2] = b[1] * a[2]

(* ------------------------------- agents -------------------------------- *)
\* BaseAgent.__init__: performance_metrics of a newly constructed agent
InitialMetrics == [tasks_completed |-> 0, success_rate |-> <<1, 1>>,
                   average_execution_time |-> <<0, 1>>]

\* BaseAgent.__init__: load_factor, never assigned again
load_factor(agent) == 0

\* can_handle_task of the second registered agent kind (tenths)
GenericConfidence(task) ==
    IF "speech_to_text" \in task.required_capabilities THEN 9
    ELSE IF "text_to_speech" \in task.required_capabilities THEN 5
    ELSE 0

\* can_handle_task: confidence in tenths, 0 means "cannot handle"
can_handle_task(agent, task) ==
    IF agent = "voice_agent_001"
    THEN IF task.required_capabilities \cap VoiceCapabilities # {} THEN 9 ELSE 0
    ELSE GenericConfidence(task)

\* mutant: the previous averages are weighted with the new count
update_performance_metrics_NewCount(pm, success, execution_time) ==
    LET total_tasks == pm.tasks_completed + 1
        sr == pm.success_rate
        current_successes == <<sr[1] * total_tasks, sr[2]>>
        avg == pm.average_execution_time
    IN [tasks_completed |-> total_tasks,
        success_rate |->
            IF success
            THEN Rat(current_successes[1] + current_successes[2],
                     current_successes[2] * total_tasks)
            ELSE Rat(current_successes[1], current_successes[2] * total_tasks),
        average_execution_time |->
            Rat(avg[1] * total_tasks + execution_time * avg[2],
                avg[2] * total_tasks)]

\* BaseAgent.update_performance_metrics
update_performance_metrics(pm, success, execution_time) ==
    LET total_tasks == pm.tasks_completed + 1
        sr == pm.success_rate
        current_successes == <<sr[1] * (total_tasks - 1), sr[2]>>
        avg == pm.average_execution_time
    IN [tasks_completed |-> total_tasks,
        success_rate |->
            IF success
            THEN Rat(current_successes[1] + current_successes[2],
                     current_successes[2] * total_tasks)
            ELSE Rat(current_successes[1], current_successes[2] * total_tasks),
        average_execution_time |->
            Rat(avg[1] * (total_tasks - 1) + execution_time * avg[2],
                avg[2] * total_tasks)]

(* ------------------------------ selector ------------------------------- *)
\* mutant: the success rate is left out of the score
composite_score_NoSuccessRate(agent, task) ==
    <<5 * can_handle_task(agent, task) + 2 * (10 - load_factor(agent)), 100>>

\* composite_score = confidence*0.5 + success_rate*0.3 + (1 - load_factor)*0.2
composite_score(agent, task) ==
    LET sr == performance_metrics[agent].success_rate
        load_score == 10 - load_factor(agent)
    IN <<(5 * can_handle_task(agent, task) + 2 * load_score) * sr[2] + 30 * sr[1],
         100 * sr[2]>>

\* mutant: agents of confidence 0 are kept
IsCandidate_AnyConfidence(agent, task) == state[agent] = "idle"

\* mutant: agents that are not idle are kept
IsCandidate_AnyState(agent, task) == can_handle_task(agent, task) > 0

\* the agents that get an entry in agent_scores
IsCandidate(agent, task) ==
    /\ state[agent] = "idle"
    /\ can_handle_task(agent, task) > 0

\* list.sort(key=score, reverse=True) is stable: an element goes behind
\* every element whose score is not smaller
RECURSIVE InsertByScore(_, _, _)
InsertByScore(s, agent, task) ==
    IF s = <<>> THEN <<agent>>
    ELSE IF RatGreater(composite_score(agent, task), composite_score(Head(s), task))
         THEN <<agent>> \o s
         ELSE <<Head(s)>> \o InsertByScore(Tail(s), agent, task)

RECURSIVE SortByScore(_, _)
SortByScore(s, task) ==
    IF s = <<>> THEN <<>>
    ELSE InsertByScore(SortByScore(SubSeq(s, 1, Len(s) - 1), task), s[Len(s)], task)

\* AgentOrchestrationMatrix._select_best_agent
select_best_agent(task) ==
    IF agents = <<>> THEN None
    ELSE LET agent_scores == SelectSeq(agents, LAMBDA a : IsCandidate(a, task))
         IN IF agent_scores = <<>> THEN None
            ELSE Head(SortByScore(agent_scores, task))

(* ------------------------------- queue --------------------------------- *)
\* key=lambda t: (t.priority.value, t.deadline or datetime.max)
DeadlineKey(task) == IF task.deadline = NoDeadline THEN DateTimeMax ELSE task.deadline

\* mutant: the sort is ascending (reverse=True forgotten)
KeyGreater_Ascending(a, b) ==
    \/ a.priority < b.priority
    \/ a.priority = b.priority /\ DeadlineKey(a) < DeadlineKey(b)

KeyGreater(a, b) ==
    \/ a.priority > b.priority
    \/ a.priority = b.priority /\ DeadlineKey(a) > DeadlineKey(b)

RECURSIVE InsertByKey(_, _)
InsertByKey(s, task) ==
    IF s = <<>> THEN <<task>>
    ELSE IF KeyGreater(task, Head(s)) THEN <<task>> \o s
         ELSE <<Head(s)>> \o InsertByKey(Tail(s), task)

\* self.task_queue.sort(key=..., reverse=True), a stable sort
RECURSIVE SortQueue(_)
SortQueue(q) ==
    IF q = <<>> THEN <<>>
    ELSE InsertByKey(SortQueue(SubSeq(q, 1, Len(q) - 1)), q[Len(q)])

\* mutant: a task whose deadline has passed is not assigned
Assignable_NotExpired(task) ==
    LET best_agent == select_best_agent(task)
    IN /\ best_agent # None /\ state[best_agent] = "idle"
       /\ ~(task.deadline # NoDeadline /\ now > task.deadline)

\* _assign_task_to_agent returns True for the task
Assignable(task) ==
    LET best_agent == select_best_agent(task)
    IN best_agent # None /\ state[best_agent] = "idle"

\* the tasks _process_task_queue assigns, in the order it assigns them
tasks_to_remove(sorted) == SelectSeq(sorted, Assignable)

\* mutant: the queue is emptied by the pass
RemoveAssigned_All(sorted, removed) == <<>>

\* mutant: assigned tasks are not removed from the queue
RemoveAssigned_Keep(sorted, removed) == sorted

\* the queue after the removal loop of _process_task_queue
RemoveAssigned(sorted, removed) ==
    SelectSeq(sorted, LAMBDA t : \A i \in 1..Len(removed) : removed[i] # t)

SeqToSet(s) == {s[i] : i \in 1..Len(s)}

QueuedIds == {task_queue[i].id : i \in 1..Len(task_queue)}

ActiveIds == {t \in TaskIds : active_tasks[t] # NoTask}

CompletedIds == {t \in TaskIds : completed_tasks[t] # NoResponse}


(* ------------------------------ responses ------------------------------ *)
\* AgentResponse; kind stands for error_message/metadata:
\* "ok", "error" (raised inside the work), "orchestration_error", "timeout"
AgentResponse(agent_id, task_id, success, execution_time, kind) ==
    [agent_id |-> agent_id, task_id |-> task_id, success |-> success,
     execution_time |-> execution_time, kind |-> kind]

\* the timeout response of _monitor_active_tasks
timeout_response(task_id) ==
    AgentResponse(OrchestrationMatrix, task_id, FALSE, 0, "timeout")

\* mutant: a task expires one tick late
DeadlineExceeded_Late(task, current_time) ==
    task.deadline # NoDeadline /\ current_time > task.deadline + 1

\* the deadline test of _monitor_active_tasks
DeadlineExceeded(task, current_time) ==
    task.deadline # NoDeadline /\ current_time > task.deadline

ExpiredIds == {t \in ActiveIds : DeadlineExceeded(active_tasks[t], now)}

\* mutant: the active map is not consulted
get_task_status_NoActive(task_id) ==
    IF task_id \in CompletedIds
    THEN [status |-> "completed", success |-> completed_tasks[task_id].success,
          agent_id |-> completed_tasks[task_id].agent_id]
    ELSE IF task_id \in QueuedIds
    THEN [status |-> "queued",
          position |-> (CHOOSE i \in 1..Len(task_queue) :
                            task_queue[i].id = task_id) - 1]
    ELSE [status |-> "not_found"]

\* AgentOrchestrationMatrix.get_task_status
get_task_status(task_id) ==
    IF task_id \in CompletedIds
    THEN [status |-> "completed", success |-> completed_tasks[task_id].success,
          agent_id |-> completed_tasks[task_id].agent_id]
    ELSE IF task_id \in ActiveIds
    THEN [status |-> "active", task |-> active_tasks[task_id]]
    ELSE IF task_id \in QueuedIds
    THEN [status |-> "queued",
          position |-> (CHOOSE i \in 1..Len(task_queue) :
                            /\ task_queue[i].id = task_id
                            /\ \A j \in 1..(i - 1) : task_queue[j].id # task_id) - 1]
    ELSE [status |-> "not_found"]

(* -------------------------------- Init --------------------------------- *)
Init ==
    /\ now = 0
    /\ agents = <<>>
    /\ state = [a \in Agents |-> "idle"]
    /\ current_task = [a \in Agents |-> 0]
    /\ performance_metrics = [a \in Agents |-> InitialMetrics]
    /\ task_queue = <<>>
    /\ active_tasks = [t \in TaskIds |-> NoTask]
    /\ completed_tasks = [t \in TaskIds |-> NoResponse]
    /\ orchestration_metrics = [total_tasks |-> 0, successful_tasks |-> 0,
                                failed_tasks |-> 0,
                                agent_utilization |-> [a \in {} |-> 0]]
    /\ is_running = FALSE
    /\ loop_tasks = [scheduled |-> 0, sleeping |-> 0, sweeping |-> 0]
    /\ exec_tasks = [t \in TaskIds |-> NoExec]
    /\ history = [writes |-> [t \in TaskIds |-> 0],
                  assigned |-> <<>>,
                  successes |-> [a \in Agents |-> 0],
                  durations |-> [a \in Agents |-> 0],
                  shutdown |-> FALSE,
                  submits |-> 0]

\* no coroutine is in the middle of a step
AtSuspensionPoint == loop_tasks.sweeping = 0

(* ------------------------------- actions ------------------------------- *)
\* time passes
Tick ==
    /\ AtSuspensionPoint
    /\ now < MaxTime
    /\ now' = now + 1
    /\ UNCHANGED <<agents, agent_vars, task_queue, active_tasks, completed_tasks,
                   orchestration_metrics, is_running, loop_tasks, exec_tasks, history>>

\* AgentOrchestrationMatrix.register_agent
register_agent(agent) ==
    /\ AtSuspensionPoint
    /\ agents' = IF agent \in SeqToSet(agents) THEN agents ELSE Append(agents, agent)
    /\ orchestration_metrics' =
          [orchestration_metrics EXCEPT !.agent_utilization =
              [a \in (DOMAIN @) \cup {agent} |-> IF a = agent THEN 0 ELSE @[a]]]
    /\ UNCHANGED <<now, agent_vars, task_queue, active_tasks, completed_tasks,
                   is_running, loop_tasks, exec_tasks, history>>

\* mutant: total_tasks is not incremented
submit_task_NoCount(task) ==
    /\ AtSuspensionPoint
    /\ task.id = history.submits + 1
    /\ task_queue' = Append(task_queue, task)
    /\ loop_tasks' = IF ~is_running
                     THEN [loop_tasks EXCEPT !.scheduled = @ + 1]
                     ELSE loop_tasks
    /\ history' = [history EXCEPT !.submits = @ + 1]
    /\ UNCHANGED <<now, agents, agent_vars, active_tasks, completed_tasks,
                   orchestration_metrics, is_running, exec_tasks>>

\* AgentOrchestrationMatrix.submit_task; the callers give every task its own
\* identifier, here the number of the call
submit_task(task) ==
    /\ AtSuspensionPoint
    /\ task.id = history.submits + 1
    /\ task_queue' = Append(task_queue, task)
    /\ orchestration_metrics' = [orchestration_metrics EXCEPT !.total_tasks = @ + 1]
    /\ loop_tasks' = IF ~is_running
                     THEN [loop_tasks EXCEPT !.scheduled = @ + 1]
                     ELSE loop_tasks
    /\ history' = [history EXCEPT !.submits = @ + 1]
    /\ UNCHANGED <<now, agents, agent_vars, active_tasks, completed_tasks,
                   is_running, exec_tasks>>

\* AgentOrchestrationMatrix.shutdown
shutdown ==
    /\ AtSuspensionPoint
    /\ is_running' = FALSE
    /\ history' = [history EXCEPT !.shutdown = TRUE]
    /\ UNCHANGED <<now, agents, agent_vars, task_queue, active_tasks, completed_tasks,
                   orchestration_metrics, loop_tasks, exec_tasks>>


\* _process_task_queue, called when the queue is not empty: sort, offer every
\* queued task to _assign_task_to_agent, remove the assigned ones
ProcessTaskQueue ==
    LET sorted == SortQueue(task_queue)
        assigned == tasks_to_remove(sorted)
        IsAssigned(t) == \E i \in 1..Len(assigned) : assigned[i].id = t
        TaskOf(t) == CHOOSE task \in SeqToSet(assigned) : task.id = t
    IN /\ active_tasks' = [t \in TaskIds |->
                              IF IsAssigned(t) THEN TaskOf(t) ELSE active_tasks[t]]
       /\ exec_tasks' = [t \in TaskIds |->
                            IF IsAssigned(t)
                            THEN [pc |-> "created",
                                  agent |-> select_best_agent(TaskOf(t)),
                                  start_time |-> 0]
                            ELSE exec_tasks[t]]
       /\ task_queue' = RemoveAssigned(sorted, assigned)
       /\ history' = [history EXCEPT
                         !.assigned = @ \o [i \in 1..Len(assigned) |-> assigned[i].id]]

\* mutant: the loop condition looks at the queue only
LoopIteration_QueueOnly(from) ==
    IF task_queue # <<>>
    THEN /\ ProcessTaskQueue
         /\ loop_tasks' = [loop_tasks EXCEPT ![from] = @ - 1, !.sweeping = 1]
         /\ is_running' = IF from = "scheduled" THEN TRUE ELSE is_running
    ELSE /\ loop_tasks' = [loop_tasks EXCEPT ![from] = @ - 1]
         /\ is_running' = FALSE
         /\ UNCHANGED <<task_queue, active_tasks, exec_tasks, history>>

\* mutant: is_running is not reset when the loop ends (no finally)
LoopIteration_NoReset(from) ==
    IF task_queue # <<>> \/ ActiveIds # {}
    THEN /\ IF task_queue # <<>>
            THEN ProcessTaskQueue
            ELSE UNCHANGED <<task_queue, active_tasks, exec_tasks, history>>
         /\ loop_tasks' = [loop_tasks EXCEPT ![from] = @ - 1, !.sweeping = 1]
         /\ is_running' = IF from = "scheduled" THEN TRUE ELSE is_running
    ELSE /\ loop_tasks' = [loop_tasks EXCEPT ![from] = @ - 1]
         /\ is_running' = IF from = "scheduled" THEN TRUE ELSE is_running
         /\ UNCHANGED <<task_queue, active_tasks, exec_tasks, history>>

\* the body of the while loop of _orchestration_loop up to the deadline sweep,
\* or the exit of the loop through finally
LoopIteration(from) ==
    IF task_queue # <<>> \/ ActiveIds # {}
    THEN /\ IF task_queue # <<>>
            THEN ProcessTaskQueue
            ELSE UNCHANGED <<task_queue, active_tasks, exec_tasks, history>>
         /\ loop_tasks' = [loop_tasks EXCEPT ![from] = @ - 1, !.sweeping = 1]
         /\ is_running' = IF from = "scheduled" THEN TRUE ELSE is_running
    ELSE /\ loop_tasks' = [loop_tasks EXCEPT ![from] = @ - 1]
         /\ is_running' = FALSE
         /\ UNCHANGED <<task_queue, active_tasks, exec_tasks, history>>

\* first step of a created _orchestration_loop task
LoopStart ==
    /\ AtSuspensionPoint
    /\ loop_tasks.scheduled > 0
    /\ LoopIteration("scheduled")
    /\ UNCHANGED <<now, agents, agent_vars, completed_tasks, orchestration_metrics>>

\* a loop returns from asyncio.sleep(0.1)
LoopWake ==
    /\ AtSuspensionPoint
    /\ loop_tasks.sleeping > 0
    /\ LoopIteration("sleeping")
    /\ UNCHANGED <<now, agents, agent_vars, completed_tasks, orchestration_metrics>>

\* _monitor_active_tasks, then the loop sleeps
monitor_active_tasks ==
    /\ loop_tasks.sweeping = 1
    /\ completed_tasks' = [t \in TaskIds |->
                              IF t \in ExpiredIds THEN timeout_response(t)
                              ELSE completed_tasks[t]]
    /\ orchestration_metrics' = [orchestration_metrics EXCEPT
                                    !.failed_tasks = @ + Cardinality(ExpiredIds)]
    /\ active_tasks' = [t \in TaskIds |->
                           IF t \in ExpiredIds THEN NoTask ELSE active_tasks[t]]
    /\ loop_tasks' = [loop_tasks EXCEPT !.sweeping = 0, !.sleeping = @ + 1]
    /\ history' = [history EXCEPT
                      !.writes = [t \in TaskIds |->
                                     IF t \in ExpiredIds THEN @[t] + 1 ELSE @[t]]]
    /\ UNCHANGED <<now, agents, agent_vars, task_queue, is_running, exec_tasks>>

\* first step of _execute_task_with_agent: utilization, then execute_task up
\* to the awaited work
ExecStart(t) ==
    /\ AtSuspensionPoint
    /\ exec_tasks[t].pc = "created"
    /\ LET agent == exec_tasks[t].agent
       IN /\ orchestration_metrics' = [orchestration_metrics EXCEPT
                                          !.agent_utilization[agent] = @ + 1]
          /\ state' = [state EXCEPT ![agent] = "active"]
          /\ current_task' = [current_task EXCEPT ![agent] = t]
    /\ exec_tasks' = [exec_tasks EXCEPT ![t].pc = "running", ![t].start_time = now]
    /\ UNCHANGED <<now, agents, performance_metrics, task_queue, active_tasks,
                   completed_tasks, is_running, loop_tasks, history>>

\* the error response of _execute_task_with_agent (except Exception)
error_response(agent, task_id) ==
    AgentResponse(agent, task_id, FALSE, 0, "orchestration_error")

\* mutant: the state is restored on the paths that build a response only
StateAfterExecute_NoFinally(outcome) ==
    IF outcome = "cancelled" THEN "active" ELSE "idle"

\* finally of execute_task: self.state = AgentState.IDLE on every path
StateAfterExecute(outcome) == "idle"

\* mutant: the task reference is cleared on the success path only
CurrentTaskAfterExecute_SuccessOnly(agent, outcome) ==
    IF outcome = "ok" THEN 0 ELSE current_task[agent]

\* finally of execute_task: self.current_task = None on every path
CurrentTaskAfterExecute(agent, outcome) == 0

\* mutant: a failure of the work is reported as a success
execute_task_response_Success(agent, task_id, outcome, execution_time) ==
    AgentResponse(agent, task_id, TRUE, execution_time, outcome)

\* the response execute_task builds: success after the work returned, failure
\* with the error message after it raised an Exception
execute_task_response(agent, task_id, outcome, execution_time) ==
    AgentResponse(agent, task_id, outcome = "ok", execution_time, outcome)

Outcomes == {"ok", "error", "cancelled"}

\* the work ends: rest of execute_task, then rest of _execute_task_with_agent.
\* "ok": the work returned; "error": it raised an Exception; "cancelled": a
\* BaseException (asyncio.CancelledError) was raised at the await, which
\* except Exception does not catch, so finally reads the unbound response
ExecFinish(t, outcome) ==
    /\ AtSuspensionPoint
    /\ exec_tasks[t].pc = "running"
    /\ LET agent == exec_tasks[t].agent
           execution_time == now - exec_tasks[t].start_time
           response == IF outcome = "cancelled"
                       THEN error_response(agent, t)
                       ELSE execute_task_response(agent, t, outcome, execution_time)
       IN /\ state' = [state EXCEPT ![agent] = StateAfterExecute(outcome)]
          /\ current_task' = [current_task EXCEPT
                                 ![agent] = CurrentTaskAfterExecute(agent, outcome)]
          /\ performance_metrics' =
                IF outcome = "cancelled" THEN performance_metrics
                ELSE [performance_metrics EXCEPT ![agent] =
                         update_performance_metrics(@, response.success,
                                                    response.execution_time)]
          /\ completed_tasks' = [completed_tasks EXCEPT ![t] = response]
          /\ orchestration_metrics' =
                IF response.success
                THEN [orchestration_metrics EXCEPT !.successful_tasks = @ + 1]
                ELSE [orchestration_metrics EXCEPT !.failed_tasks = @ + 1]
          /\ history' = [history EXCEPT
                            !.writes[t] = @ + 1,
                            !.successes[agent] =
                                IF outcome = "ok" THEN @ + 1 ELSE @,
                            !.durations[agent] =
                                IF outcome = "cancelled" THEN @ ELSE @ + execution_time]
    /\ active_tasks' = [active_tasks EXCEPT ![t] = NoTask]
    /\ exec_tasks' = [exec_tasks EXCEPT ![t].pc = "done"]
    /\ UNCHANGED <<now, agents, task_queue, is_running, loop_tasks>>

Next ==
    \/ Tick
    \/ \E agent \in Agents : register_agent(agent)
    \/ \E task \in Task : submit_task(task)
    \/ shutdown
    \/ LoopStart
    \/ LoopWake
    \/ monitor_active_tasks
    \/ \E t \in TaskIds : ExecStart(t)
    \/ \E t \in TaskIds, outcome \in Outcomes : ExecFinish(t, outcome)

Spec == Init /\ [][Next]_vars


(* ============================== properties ============================= *)
\* executions created for an agent (asyncio.create_task) that have not ended
LiveExecutions(agent) ==
    {t \in TaskIds : /\ exec_tasks[t].pc \in {"created", "running"}
                     /\ exec_tasks[t].agent = agent}

\* a step that is the dispatch pass of a loop iteration
PassStep == loop_tasks.sweeping = 0 /\ loop_tasks'.sweeping = 1 /\ task_queue # <<>>

\* a step that is the deadline sweep of a loop iteration
SweepStep == loop_tasks.sweeping = 1 /\ loop_tasks'.sweeping = 0

\* a step in which the execution of task t ends
FinishStep(t) == exec_tasks[t].pc = "running" /\ exec_tasks'[t].pc = "done"

InLog(log, id) == \E i \in 1..Len(log) : log[i] = id

Pos(log, id) == CHOOSE i \in 1..Len(log) : log[i] = id

\* C1: every agent has at most one execution that was launched on it and has
\* not finished.
C1_AtMostOneAssignment ==
    \A a \in Agents : Cardinality(LiveExecutions(a)) <= 1

\* C2: once the completed entry of a task is the orchestrator's timeout
\* response, no later step changes that entry.
C2_TimeoutResultSticks ==
    [][\A t \in TaskIds :
          completed_tasks[t].agent_id = OrchestrationMatrix
              => completed_tasks'[t] = completed_tasks[t]]_vars

\* C3: in a dispatch pass, of two queued tasks with different priorities that
\* one idle registered agent can both take, the one with the higher priority
\* is assigned, and is assigned before the other one; the tasks assigned in a
\* pass are assigned in descending priority order.
C3_PriorityOrdering ==
    [][PassStep =>
          LET log == history'.assigned
              old == Len(history.assigned)
          IN /\ \A i, j \in 1..Len(task_queue) :
                    LET t1 == task_queue[i]
                        t2 == task_queue[j]
                    IN (/\ t1.priority > t2.priority
                        /\ \E a \in SeqToSet(agents) :
                               IsCandidate(a, t1) /\ IsCandidate(a, t2))
                       => /\ InLog(log, t1.id)
                          /\ t1.id \in ActiveIds'
                          /\ InLog(log, t2.id) => Pos(log, t1.id) < Pos(log, t2.id)
             /\ \A m, n \in (old + 1)..Len(log) :
                    m < n => active_tasks'[log[m]].priority >= active_tasks'[log[n]].priority
      ]_vars

\* C3 witness: two tasks with the same capabilities were assigned, the one
\* submitted later, with the higher priority, first.
C3_Witness ==
    /\ history.assigned = <<2, 1>>
    /\ active_tasks[1] # NoTask /\ active_tasks[2] # NoTask
    /\ active_tasks[1].required_capabilities = active_tasks[2].required_capabilities
    /\ active_tasks[2].priority > active_tasks[1].priority

\* C4: a task identifier is in at most one of the queue, the active map and
\* the completed map.
C4_OneCollection ==
    \A t \in TaskIds :
        /\ ~(t \in QueuedIds /\ t \in ActiveIds)
        /\ ~(t \in QueuedIds /\ t \in CompletedIds)
        /\ ~(t \in ActiveIds /\ t \in CompletedIds)
        /\ Cardinality({i \in 1..Len(task_queue) : task_queue[i].id = t}) <= 1

\* C4 witness: one task is active while another one is completed, its entry
\* written by the sweep and again by its execution
C4_Witness ==
    /\ AtSuspensionPoint
    /\ ActiveIds # {}
    /\ \E t \in CompletedIds : history.writes[t] = 2

\* C5: the completed entry of a task is written at most once.
C5_CompletedOnce ==
    \A t \in TaskIds : history.writes[t] <= 1

\* no registered agent reports a non-zero fitness for the task
NoMatch(task) == \A a \in SeqToSet(agents) : can_handle_task(a, task) = 0

\* C6: a queued task for which every registered agent reports fitness 0 is
\* still queued after any step, is reported as queued by get_task_status, and
\* is neither active nor completed.
C6_NoMatchPersistence ==
    [][\A id \in QueuedIds :
          (\E i \in 1..Len(task_queue) :
               task_queue[i].id = id /\ NoMatch(task_queue[i]))
          => /\ id \in QueuedIds'
             /\ id \notin ActiveIds'
             /\ id \notin CompletedIds'
             /\ (get_task_status(id).status = "queued")'
      ]_vars

\* C6 witness: a dispatch pass has just run with an idle registered agent and
\* a queued task that no registered agent can handle
C6_Witness ==
    /\ loop_tasks.sweeping = 1
    /\ \E a \in SeqToSet(agents) : state[a] = "idle"
    /\ \E i \in 1..Len(task_queue) :
           /\ NoMatch(task_queue[i])
           /\ get_task_status(task_queue[i].id).status = "queued"

\* the active tasks whose deadline is earlier than the current time
Overdue == {t \in TaskIds : /\ active_tasks[t] # NoTask
                            /\ active_tasks[t].deadline # NoDeadline
                            /\ active_tasks[t].deadline < now}

\* C7: a deadline sweep removes every overdue task from the active map,
\* records for it a failure response of the orchestrator, and adds one to the
\* failure counter for each of them; no overdue task is left active.
C7_DeadlineExpiry ==
    [][SweepStep =>
          /\ \A t \in Overdue :
                /\ t \notin ActiveIds'
                /\ completed_tasks'[t] # NoResponse
                /\ completed_tasks'[t].success = FALSE
                /\ completed_tasks'[t].agent_id = OrchestrationMatrix
          /\ orchestration_metrics'.failed_tasks =
                orchestration_metrics.failed_tasks + Cardinality(Overdue)
          /\ Overdue' = {}
      ]_vars

\* C7 witness: a sweep has completed an overdue task
C7_Witness ==
    \E t \in TaskIds :
        /\ completed_tasks[t].agent_id = OrchestrationMatrix
        /\ exec_tasks[t].pc = "running"
        /\ orchestration_metrics.failed_tasks >= 1

\* C8: when a execute_task ends, on whatever path, its agent is idle, has no
\* current task and has one more completed task.
C8_StateRestored ==
    [][\A t \in TaskIds :
          FinishStep(t) =>
              LET a == exec_tasks[t].agent
              IN /\ state'[a] = "idle"
                 /\ current_task'[a] = 0
                 /\ performance_metrics'[a].tasks_completed =
                        performance_metrics[a].tasks_completed + 1
      ]_vars

\* C9: for an agent that completed n >= 1 tasks, success_rate is the number of
\* its successful responses over n and average_execution_time is the sum of
\* its execution times over n.
C9_RunningAverages ==
    \A a \in Agents :
        LET pm == performance_metrics[a]
            n == pm.tasks_completed
        IN n >= 1 =>
              /\ pm.success_rate[1] * n = history.successes[a] * pm.success_rate[2]
              /\ pm.average_execution_time[1] * n
                    = history.durations[a] * pm.average_execution_time[2]

\* C9 witness: an agent completed two tasks, one of them successfully, with a
\* total duration that n does not divide
C9_Witness ==
    \E a \in Agents :
        /\ performance_metrics[a].tasks_completed = 2
        /\ history.successes[a] = 1
        /\ history.durations[a] = 1

Candidates(task) == {a \in SeqToSet(agents) : state[a] = "idle" /\ can_handle_task(a, task) > 0}

Index(agent) == CHOOSE i \in 1..Len(agents) : agents[i] = agent

\* 0.5*fitness + 0.3*success_rate + 0.2*(1 - load_factor), in thousandths of
\* the denominator of success_rate
Score(agent, task) ==
    LET sr == performance_metrics[agent].success_rate
    IN <<50 * can_handle_task(agent, task) * sr[2] + 300 * sr[1]
            + 20 * (10 - load_factor(agent)) * sr[2], 1000 * sr[2]>>

\* C10: the selector returns none exactly if no idle agent has non-zero
\* fitness; otherwise it returns an idle agent with non-zero fitness whose
\* composite score is maximal and that was registered before every other
\* agent with that score; of two candidates with equal fitness and load the
\* one with the lower success rate is not selected.
C10_SelectorResult ==
    \A task \in {t \in Task : t.id = 1} :
        LET best == select_best_agent(task)
        IN /\ best = None <=> Candidates(task) = {}
           /\ best # None =>
                 /\ best \in Candidates(task)
                 /\ \A c \in Candidates(task) :
                       /\ ~RatGreater(Score(c, task), Score(best, task))
                       /\ RatEqual(Score(c, task), Score(best, task))
                             => Index(best) <= Index(c)
           /\ \A c, d \in Candidates(task) :
                 (/\ can_handle_task(c, task) = can_handle_task(d, task)
                  /\ load_factor(c) = load_factor(d)
                  /\ RatGreater(performance_metrics[c].success_rate,
                                performance_metrics[d].success_rate))
                    => best # d

\* C10 witness: two idle candidates of equal fitness, the one registered
\* second has the higher success rate and is the one selected
C10_Witness ==
    \E task \in {t \in Task : t.id = 1} :
        /\ Len(agents) = 2
        /\ Candidates(task) = Agents
        /\ can_handle_task(agents[1], task) = can_handle_task(agents[2], task)
        /\ RatGreater(performance_metrics[agents[2]].success_rate,
                      performance_metrics[agents[1]].success_rate)
        /\ select_best_agent(task) = agents[2]

\* the _orchestration_loop coroutines that have started and not ended
LiveLoops == loop_tasks.sleeping + loop_tasks.sweeping

\* C11: at most one dispatch loop is live at any time.
C11_SingleLoop == LiveLoops <= 1

\* asyncio runs every created task and wakes every sleeping one: the steps of
\* the dispatch loops are taken eventually
FairSpec ==
    /\ Spec
    /\ WF_vars(LoopStart)
    /\ WF_vars(LoopWake)
    /\ WF_vars(monitor_active_tasks)

\* a step in which a loop evaluates the condition of its while statement
LoopCheckStep ==
    /\ loop_tasks.sweeping = 0
    /\ \/ loop_tasks'.scheduled < loop_tasks.scheduled
       \/ loop_tasks'.sleeping < loop_tasks.sleeping

\* a step that is a call of submit_task
SubmitStep == Len(task_queue') = Len(task_queue) + 1

\* no loop is live and none is created
LoopStopped == LiveLoops = 0 /\ loop_tasks.scheduled = 0

\* C12: a loop that finds the queue and the active map empty at its check ends
\* and leaves is_running false; a submit_task made when no loop is left
\* creates a new loop; a loop that finds the queue non-empty at its check
\* runs a dispatch pass, which assigns every queued task the selector has an
\* agent for; is_running is true only while some loop is live.
C12_StopAndRestart ==
    [][/\ (LoopCheckStep /\ task_queue = <<>> /\ ActiveIds = {})
             => /\ LiveLoops' + loop_tasks'.scheduled
                      = LiveLoops + loop_tasks.scheduled - 1
                /\ ~is_running'
       /\ (SubmitStep /\ LoopStopped)
             => /\ ~is_running
                /\ loop_tasks'.scheduled = 1
       /\ (LoopCheckStep /\ task_queue # <<>>)
             => /\ PassStep
                /\ \A i \in 1..Len(task_queue) :
                       Assignable(task_queue[i]) => task_queue[i].id \in ActiveIds'
      ]_vars

\* C12 witness: the loop of the first task has ended after the task was
\* completed, and a second submit_task has created a new loop (a loop does
\* not end while a task is queued, so the task was submitted after the end)
C12_Witness ==
    /\ CompletedIds = {1}
    /\ exec_tasks[1].pc = "done"
    /\ QueuedIds = {2}
    /\ ~is_running
    /\ loop_tasks = [scheduled |-> 1, sleeping |-> 0, sweeping |-> 0]

\* Under FairSpec a queued task is eventually offered in a dispatch pass: a
\* task stays queued until a pass, and a loop is between pass and sweep
\* (sweeping = 1) right after a check that found the queue non-empty.
EventuallyOffered ==
    \A id \in TaskIds :
        (id \in QueuedIds /\ loop_tasks.sweeping = 0) ~> (loop_tasks.sweeping = 1)

\* C12 with its liveness part
C12_StopRestartOffer == C12_StopAndRestart /\ EventuallyOffered

\* C13: once shutdown() has returned, no loop runs a dispatch pass or a
\* deadline sweep and no queued task is assigned.
C13_ShutdownStopsLoop ==
    [][history.shutdown =>
          /\ ~PassStep
          /\ ~SweepStep
          /\ ActiveIds' \subseteq ActiveIds
      ]_vars

\* C14: no step changes the position of a registered agent in the registry
\* or sets its utilization counter back: registering an agent again leaves
\* the registry and the counter as they were.
C14_RegisterIdempotent ==
    [][\A i \in 1..Len(agents) :
          /\ Len(agents') >= i
          /\ agents'[i] = agents[i]
          /\ orchestration_metrics'.agent_utilization[agents[i]]
                >= orchestration_metrics.agent_utilization[agents[i]]
      ]_vars

\* the identifiers submit_task has been called with
SubmittedIds == 1..orchestration_metrics.total_tasks

\* C15: get_task_status reports queued, with the index in the queue, exactly
\* for the identifiers in the queue, active exactly for those in the active
\* map, completed exactly for those in the completed map, and not_found
\* exactly for the identifiers never submitted.
C15_StatusAgrees ==
    \A id \in TaskIds :
        LET st == get_task_status(id)
        IN /\ st.status = "queued" <=> id \in QueuedIds
           /\ st.status = "queued" => task_queue[st.position + 1].id = id
           /\ st.status = "active" <=> id \in ActiveIds
           /\ st.status = "active" => st.task = active_tasks[id]
           /\ st.status = "completed" <=> id \in CompletedIds
           /\ st.status = "completed" =>
                 /\ st.success = completed_tasks[id].success
                 /\ st.agent_id = completed_tasks[id].agent_id
           /\ st.status = "not_found" <=> id \notin SubmittedIds

\* C15 witness: after a dispatch pass one task is reported active and the
\* other one queued at index 0
C15_Witness ==
    /\ loop_tasks.sleeping > 0
    /\ \E id, other \in TaskIds :
           /\ get_task_status(id).status = "active"
           /\ get_task_status(other) = [status |-> "queued", position |-> 0]

\* a step in which execute_task of task t ends by raising: the execution ends
\* and the agent's metrics are not updated
RaiseStep(t) ==
    /\ FinishStep(t)
    /\ performance_metrics'[exec_tasks[t].agent] = performance_metrics[exec_tasks[t].agent]

\* C16: when execute_task raises, the completed entry of the task becomes a
\* failure response tagged as an orchestration error, the failure counter
\* grows by one, the task leaves the active map, the loops are as they were
\* and the agent is idle.
C16_DispatchBoundary ==
    [][\A t \in TaskIds :
          RaiseStep(t) =>
              /\ completed_tasks'[t] # NoResponse
              /\ completed_tasks'[t].success = FALSE
              /\ completed_tasks'[t].kind = "orchestration_error"
              /\ orchestration_metrics'.failed_tasks
                    = orchestration_metrics.failed_tasks + 1
              /\ t \notin ActiveIds'
              /\ loop_tasks' = loop_tasks
              /\ is_running' = is_running
              /\ state'[exec_tasks[t].agent] = "idle"
      ]_vars

\* C16 witness: an execution ended by raising while its task was active and a
\* loop was sleeping
C16_Witness ==
    \E t \in TaskIds :
        /\ exec_tasks[t].pc = "done"
        /\ completed_tasks[t].kind = "orchestration_error"
        /\ history.writes[t] = 1
        /\ loop_tasks.sleeping > 0
        /\ state[exec_tasks[t].agent] = "idle"

\* C17: successful_tasks + failed_tasks is the number of completed task
\* identifiers and is at most total_tasks.
C17_CountersMatch ==
    /\ orchestration_metrics.successful_tasks + orchestration_metrics.failed_tasks
          = Cardinality(CompletedIds)
    /\ orchestration_metrics.successful_tasks + orchestration_metrics.failed_tasks
          <= orchestration_metrics.total_tasks

\* C18: in the queue as sorted for a dispatch pass, of two tasks of equal
\* priority the one placed first has no later deadline than the other, and a
\* task without deadline is not placed before one that has a deadline.
C18_DeadlineOrder ==
    [][PassStep =>
          LET sorted == SortQueue(task_queue)
          IN \A i, j \in 1..Len(sorted) :
                (i < j /\ sorted[i].priority = sorted[j].priority)
                   => /\ sorted[j].deadline # NoDeadline
                         => /\ sorted[i].deadline # NoDeadline
                            /\ sorted[i].deadline <= sorted[j].deadline
      ]_vars

\* C19: an idle agent has no current task; an agent that is not idle has a
\* current task, which is one submitted task.
C19_StateAndTask ==
    \A a \in Agents :
        /\ state[a] = "idle" => current_task[a] = 0
        /\ state[a] # "idle" => current_task[a] \in SubmittedIds

\* C19 witness: one agent is active with the task it executes, another one
\* is idle again after an execution that ended with an error
C19_Witness ==
    \E a, b \in Agents, t, u \in TaskIds :
        /\ state[a] = "active" /\ current_task[a] = t
        /\ exec_tasks[t].pc = "running" /\ exec_tasks[t].agent = a
        /\ state[b] = "idle" /\ current_task[b] = 0
        /\ exec_tasks[u].pc = "done" /\ exec_tasks[u].agent = b
        /\ completed_tasks[u].kind = "error"

\* C20: in the step that puts a task into the active map, the agent it was
\* matched with stops being idle, so no two tasks of one pass are matched
\* with the same agent.
C20_AtomicMatch ==
    [][PassStep =>
          /\ \A t \in ActiveIds' \ ActiveIds :
                state'[exec_tasks'[t].agent] # "idle"
          /\ \A t, u \in ActiveIds' \ ActiveIds :
                t # u => exec_tasks'[t].agent # exec_tasks'[u].agent
      ]_vars

\* C21: for every task, the agent the selector returns is registered, idle
\* and has non-zero fitness for the task, and the selector returns none
\* exactly if no registered idle agent has non-zero fitness (in particular
\* when the registry is empty).
C21_SelectorFiltering ==
    \A task \in {t \in Task : t.id = 1} :
        LET best == select_best_agent(task)
            Eligible == {a \in SeqToSet(agents) :
                            state[a] = "idle" /\ can_handle_task(a, task) # 0}
        IN /\ best # None =>
                 /\ best \in SeqToSet(agents)
                 /\ state[best] \notin {"active", "busy", "error", "maintenance"}
                 /\ can_handle_task(best, task) # 0
           /\ best = None <=> Eligible = {}
           /\ agents = <<>> => best = None

\* C21 witness: the agent registered first is executing a task it has
\* non-zero fitness for, and the selector returns the other agent for a task
\* both have the same fitness for, and also for a task the executing agent
\* has the higher fitness for
C21_Witness ==
    /\ Len(agents) = 2
    /\ state[agents[1]] = "active"
    /\ state[agents[2]] = "idle"
    /\ \E task \in {t \in Task : t.id = 1} :
           /\ can_handle_task(agents[1], task) = can_handle_task(agents[2], task)
           /\ can_handle_task(agents[1], task) > 0
           /\ select_best_agent(task) = agents[2]
    /\ \E task \in {t \in Task : t.id = 1} :
           /\ can_handle_task(agents[1], task) > can_handle_task(agents[2], task)
           /\ select_best_agent(task) = agents[2]

\* C22: a dispatch pass removes from the queue exactly the tasks it puts into
\* the active map; every queued task for which the selector returns none is in
\* the queue after the pass, with the same fields, and is not active.
C22_RemovalOnAssignment ==
    [][PassStep =>
          /\ QueuedIds \ QueuedIds' = ActiveIds' \ ActiveIds
          /\ SeqToSet(task_queue') \subseteq SeqToSet(task_queue)
          /\ Len(task_queue') = Len(task_queue) - Cardinality(ActiveIds' \ ActiveIds)
          /\ \A i \in 1..Len(task_queue) :
                select_best_agent(task_queue[i]) = None
                   => /\ task_queue[i] \in SeqToSet(task_queue')
                      /\ task_queue[i].id \notin ActiveIds'
      ]_vars

\* C22 witness: a pass has just assigned one of two queued tasks and left the
\* other one, for which the selector has no agent, in the queue
C22_Witness ==
    /\ loop_tasks.sweeping = 1
    /\ \E t, u \in TaskIds :
           /\ history.assigned = <<t>>
           /\ exec_tasks[t].pc = "created"
           /\ ActiveIds = {t}
           /\ Len(task_queue) = 1
           /\ task_queue[1].id = u
           /\ select_best_agent(task_queue[1]) = None

\* the deadline sweep changes the active map, the completed map and the
\* failure counter only
SweepFrame ==
    [][SweepStep =>
          /\ UNCHANGED <<now, agents, agent_vars, task_queue, is_running, exec_tasks>>
          /\ orchestration_metrics' =
                [orchestration_metrics EXCEPT
                    !.failed_tasks = orchestration_metrics'.failed_tasks]
          /\ ActiveIds' \subseteq ActiveIds
          /\ CompletedIds \subseteq CompletedIds'
      ]_vars

\* the agent whose execute_task of a task expired by the sweep has not ended
\* is active and is not a candidate of the selector
ExpiredStaysActive ==
    \A t \in TaskIds :
        (/\ completed_tasks[t].agent_id = OrchestrationMatrix
         /\ exec_tasks[t].pc = "running")
           => /\ state[exec_tasks[t].agent] = "active"
              /\ \A task \in {x \in Task : x.id = 1} :
                    select_best_agent(task) # exec_tasks[t].agent

\* C23: the deadline sweep changes only the active map, the completed map and
\* the failure counter, and the agent executing a task the sweep has expired
\* stays active, and is not selected, until that execution ends.
C23_NoPreemption == SweepFrame /\ []ExpiredStaysActive

\* a step in which the work of task t ends by raising an Exception that
\* execute_task catches: the agent has one more completed task, no more
\* successes, and the execution ends
WorkFailedStep(t) ==
    LET a == exec_tasks[t].agent
    IN /\ FinishStep(t)
       /\ performance_metrics'[a].tasks_completed
             = performance_metrics[a].tasks_completed + 1
       /\ history'.successes[a] = history.successes[a]

\* C24: when the work of an agent fails, the task's completed entry is a
\* failure response of that agent with the error set, the failure counter
\* grows by one and the success counter stays, the task leaves the active map,
\* and the queue, every other active task, every other agent's state and
\* current task, and the dispatch loops are as they were.
C24_FailureIsolation ==
    [][\A t \in TaskIds :
          WorkFailedStep(t) =>
              LET a == exec_tasks[t].agent
              IN /\ completed_tasks'[t].agent_id = a
                 /\ completed_tasks'[t].success = FALSE
                 /\ completed_tasks'[t].kind = "error"
                 /\ orchestration_metrics'.failed_tasks
                       = orchestration_metrics.failed_tasks + 1
                 /\ orchestration_metrics'.successful_tasks
                       = orchestration_metrics.successful_tasks
                 /\ t \notin ActiveIds'
                 /\ task_queue' = task_queue
                 /\ \A u \in TaskIds \ {t} :
                       /\ active_tasks'[u] = active_tasks[u]
                       /\ exec_tasks'[u] = exec_tasks[u]
                       /\ completed_tasks'[u] = completed_tasks[u]
                 /\ \A b \in Agents \ {a} :
                       /\ state'[b] = state[b]
                       /\ current_task'[b] = current_task[b]
                       /\ performance_metrics'[b] = performance_metrics[b]
                 /\ loop_tasks' = loop_tasks
                 /\ is_running' = is_running
      ]_vars

\* C24 witness: the work of one task failed while the other task was being
\* executed by the other agent and a loop was sleeping; both are as before
C24_Witness ==
    \E t, u \in TaskIds :
        /\ exec_tasks[t].pc = "done"
        /\ completed_tasks[t].kind = "error"
        /\ ~completed_tasks[t].success
        /\ orchestration_metrics.failed_tasks = 1
        /\ exec_tasks[u].pc = "running"
        /\ exec_tasks[u].agent # exec_tasks[t].agent
        /\ u \in ActiveIds
        /\ state[exec_tasks[u].agent] = "active"
        /\ loop_tasks.sleeping = 1
        /\ is_running

\* the tasks _assign_task_to_agent has matched with the agent (a task is
\* assigned at most once, and only to a registered agent)
AssignedTo(agent) ==
    {t \in TaskIds : exec_tasks[t].pc # "none" /\ exec_tasks[t].agent = agent}

\* C25: whenever another coroutine can run, the utilization counter of every
\* registered agent is the number of tasks that have been assigned to that
\* agent.
C25_UtilizationIsAssignmentCount ==
    AtSuspensionPoint =>
        \A a \in SeqToSet(agents) :
            orchestration_metrics.agent_utilization[a] = Cardinality(AssignedTo(a))

\* C26: whenever another coroutine can run, total_tasks is the number of
\* submit_task calls made and is the number of queued tasks plus the number
\* of active tasks plus the number of completed tasks, and every submitted
\* identifier is in one of the three collections.
C26_TaskConservation ==
    AtSuspensionPoint =>
        /\ orchestration_metrics.total_tasks = history.submits
        /\ orchestration_metrics.total_tasks
              = Len(task_queue) + Cardinality(ActiveIds) + Cardinality(CompletedIds)
        /\ \A id \in 1..history.submits :
              id \in QueuedIds \cup ActiveIds \cup CompletedIds

\* C26 witness: of two submitted tasks one is queued and the other one was
\* moved to the completed map by the sweep while its execution is running
C26_Witness ==
    /\ AtSuspensionPoint
    /\ history.submits = 2
    /\ Len(task_queue) = 1
    /\ ActiveIds = {}
    /\ \E t \in TaskIds :
           /\ completed_tasks[t] = timeout_response(t)
           /\ exec_tasks[t].pc = "running"

\* the tasks submitted in the behaviours checked for eventual completion:
\* one priority (the priority only orders a pass), a capability every agent
\* has or one no agent has, with or without deadline
LiveTask ==
    {task \in Task : /\ task.priority = 4
                     /\ task.required_capabilities \in {{"speech_to_text"}, {"unknown"}}}

\* Next with the submitted tasks taken from LiveTask
LiveNext ==
    \/ Tick
    \/ \E agent \in Agents : register_agent(agent)
    \/ \E task \in LiveTask : submit_task(task)
    \/ shutdown
    \/ LoopStart
    \/ LoopWake
    \/ monitor_active_tasks
    \/ \E t \in TaskIds : ExecStart(t)
    \/ \E t \in TaskIds, outcome \in Outcomes : ExecFinish(t, outcome)

\* asyncio runs every ready task in turn, and the work of every execution
\* ends: when loops are ready again and again a loop step is taken, when
\* created executions are ready again and again one of them starts, and when
\* works are running again and again one of them ends (the steps of the other
\* coroutines are disabled only while a loop is between its dispatch pass and
\* its sweep, where the code does not suspend).  This asks less than fairness
\* to every single coroutine.
LiveSpec ==
    /\ Init
    /\ [][LiveNext]_vars
    /\ SF_vars(LoopStart \/ LoopWake)
    /\ WF_vars(monitor_active_tasks)
    /\ SF_vars(\E t \in TaskIds : ExecStart(t))
    /\ SF_vars(\E t \in TaskIds, outcome \in Outcomes : ExecFinish(t, outcome))

\* a registered agent has non-zero fitness for the queued task with this id
QueuedMatchable(id) ==
    \E i \in 1..Len(task_queue) :
        /\ task_queue[i].id = id
        /\ \E a \in SeqToSet(agents) : can_handle_task(a, task_queue[i]) > 0

\* every submitted task that some registered agent has non-zero fitness for,
\* queued or active, is eventually in the completed map
EventuallyCompleted ==
    \A id \in TaskIds :
        (QueuedMatchable(id) \/ id \in ActiveIds) ~> (id \in CompletedIds)

\* some task has been completed and no task that a registered agent has
\* non-zero fitness for is queued or active
LastMatchableCompleted ==
    /\ CompletedIds # {}
    /\ ActiveIds = {}
    /\ \A id \in TaskIds : ~QueuedMatchable(id)

\* C27 as stated: under fair scheduling every submitted task some registered
\* agent has non-zero fitness for is eventually completed, and after the last
\* of them is completed the dispatch loop eventually stops.
C27_EventualCompletion ==
    /\ EventuallyCompleted
    /\ LastMatchableCompleted ~> LoopStopped

\* C27 amended: under fair scheduling every submitted task some registered
\* agent has non-zero fitness for is eventually completed, and whenever the
\* queue and the active map are both empty the dispatch loops eventually stop,
\* unless a task is submitted first.
C27_CompletionAndStopWhenEmpty ==
    /\ EventuallyCompleted
    /\ (task_queue = <<>> /\ ActiveIds = {}) ~> (LoopStopped \/ task_queue # <<>>)

\* C27 witness: both submitted tasks were executed to the end and completed,
\* and the loop has stopped
C27_Witness ==
    /\ history.submits = 2
    /\ CompletedIds = {1, 2}
    /\ \A t \in TaskIds : exec_tasks[t].pc = "done"
    /\ task_queue = <<>>
    /\ LoopStopped
    /\ ~is_running

\* C28: whenever the queue or the active map is not empty, a dispatch loop is
\* live or has been created and not started yet.
C28_NoStrandedWork ==
    (task_queue # <<>> \/ ActiveIds # {}) => LiveLoops + loop_tasks.scheduled >= 1

\* C28 witness: after shutdown() and after the loop of the first task has
\* ended, a task is queued and a loop has been created for it
C28_Witness ==
    /\ history.shutdown
    /\ CompletedIds = {1}
    /\ exec_tasks[1].pc = "done"
    /\ QueuedIds = {2}
    /\ ActiveIds = {}
    /\ ~is_running
    /\ LiveLoops = 0
    /\ loop_tasks.scheduled = 1

\* the queued tasks whose deadline is earlier than the current time
OverdueQueued ==
    {i \in 1..Len(task_queue) : /\ task_queue[i].deadline # NoDeadline
                                /\ task_queue[i].deadline < now}

\* C29: the deadline sweep leaves the queue as it is and completes no queued
\* task; no step moves a queued task whose deadline has passed anywhere but
\* to the active map, and a dispatch pass assigns such a task whenever the
\* selector has an agent for it.
C29_DeadlineOnlyInFlight ==
    [][/\ SweepStep =>
             /\ task_queue' = task_queue
             /\ \A id \in QueuedIds : id \notin CompletedIds'
       /\ \A i \in OverdueQueued :
             /\ task_queue[i].id \notin CompletedIds'
             /\ \/ task_queue[i] \in SeqToSet(task_queue')
                \/ active_tasks'[task_queue[i].id] = task_queue[i]
             /\ (PassStep /\ select_best_agent(task_queue[i]) # None)
                   => active_tasks'[task_queue[i].id] = task_queue[i]
      ]_vars

\* C29 witness: a dispatch pass has just assigned a task whose deadline had
\* passed while it was queued, and has left another such task, which no
\* agent can take, in the queue
C29_Witness ==
    /\ loop_tasks.sweeping = 1
    /\ \E t \in ActiveIds :
           /\ exec_tasks[t].pc = "created"
           /\ active_tasks[t].deadline # NoDeadline
           /\ active_tasks[t].deadline < now
    /\ OverdueQueued # {}

=============================================================================
